---- MODULE Spec2Model ----
(***************************************************************************)
(* Causal message delivery of hamzariaz970/PDC_Assignment_2.               *)
(*                                                                         *)
(* Four programs share one delivery engine and differ in the clock:        *)
(*   BSS.py            vector clock, partial update, drain after a send    *)
(*   SES.py            vector clock, full merge + local increment          *)
(*   matrix_clock.py   matrix clock, full merge + local increment          *)
(*   DistributedApp.py matrix clock, full merge, drain after a send        *)
(* The variable `variant` selects the program; it never changes.           *)
(* The drawing code (canvas, chat panels, x positions) is left out; the    *)
(* log lines the handlers write are kept in `log`, one entry per line.     *)
(***************************************************************************)
EXTENDS Integers, Sequences, FiniteSets, TLC

VARIABLES
    variant,    \* which of the four programs is running
    processes,  \* Simulation.processes: name -> Process
    messages,   \* Simulation.messages: msg_id -> Message
    log,        \* the log lines written by the last next_step / reset_simulation
    depends     \* history: msg_id -> ids of the messages it causally depends on

vars == <<variant, processes, messages, log, depends>>

----------------------------------------------------------------------------
(* Bounds of the model *)

\* send events per run (between two resets)
MaxMsgs == 2
\* receive events of known messages per run, over all processes
MaxReceives == 3

----------------------------------------------------------------------------
(* Global definitions *)

PROCESS_NAMES == {"P1", "P2", "P3"}

VARIANTS == {"BSS", "SES", "matrix_clock", "DistributedApp"}

VectorVariants == {"BSS", "SES"}

MatrixVariants == {"matrix_clock", "DistributedApp"}

\* the ids the event list may name: m0, m1, ... are 0, 1, ...
MsgIds == 0 .. (MaxMsgs - 1)

initial_vector == [p \in PROCESS_NAMES |-> 0]

initial_matrix == [p \in PROCESS_NAMES |-> [q \in PROCESS_NAMES |-> 0]]

Max(a, b) == IF a >= b THEN a ELSE b

\* list.remove(x): drops the first element equal to x
RECURSIVE Remove(_, _)
Remove(seq, x) ==
    IF seq = <<>> THEN <<>>
    ELSE IF Head(seq) = x THEN Tail(seq)
    ELSE <<Head(seq)>> \o Remove(Tail(seq), x)

\* the first position at which a list of booleans is TRUE, 0 if none:
\* where a for loop that breaks on its first hit stops
FirstIndex(flags) ==
    LET hits == {i \in 1 .. Len(flags) : flags[i]}
    IN  IF hits = {} THEN 0
        ELSE CHOOSE i \in hits : \A j \in hits : i <= j

\* Message(msg_id, sender, tag) / Message(msg_id, sender, matrix_snapshot):
\* a vector message carries tag, a matrix message carries matrix
Message(msg_id, sender, tag, matrix_snapshot) ==
    [msg_id |-> msg_id, sender |-> sender, tag |-> tag, matrix |-> matrix_snapshot]

\* Process.__init__: zero clock, nothing delivered, nothing pending
Process(name) ==
    [name         |-> name,
     vector_clock |-> initial_vector,
     matrix       |-> initial_matrix,
     delivered    |-> <<>>,
     pending      |-> <<>>]

\* one line of the log: what is done, by which process, to which message id
LogLine(kind, name, msg_id) ==
    [kind |-> kind, process |-> name, msg_id |-> msg_id]

----------------------------------------------------------------------------
(* BSS.py: vector clock, partial update *)

\* mutant: only the sender's entry is tested
BSS_is_deliverable_sender_only(process, message) ==
    message.tag[message.sender] = process.vector_clock[message.sender] + 1

\* mutant: the other entries must equal the receiver's, not stay below them
BSS_is_deliverable_exact(process, message) ==
    LET sender == message.sender
    IN  /\ message.tag[sender] = process.vector_clock[sender] + 1
        /\ \A p \in PROCESS_NAMES \ {sender} :
              message.tag[p] = process.vector_clock[p]

BSS_is_deliverable(process, message) ==
    \A p \in PROCESS_NAMES :
        IF p = message.sender
        THEN message.tag[p] = process.vector_clock[p] + 1
        ELSE message.tag[p] <= process.vector_clock[p]

\* mutant: the delivery also counts as a local event, as in SES.py
BSS_deliver_message_local_event(process, message) ==
    [process EXCEPT
        !.delivered = Append(@, message.msg_id),
        !.vector_clock = [@ EXCEPT ![message.sender] = message.tag[message.sender],
                                   ![process.name] = @ + 1]]

\* mutant: every entry is merged with the timestamp, not the sender's alone
BSS_deliver_message_full_merge(process, message) ==
    [process EXCEPT
        !.delivered = Append(@, message.msg_id),
        !.vector_clock = [p \in PROCESS_NAMES |->
                             Max(process.vector_clock[p], message.tag[p])]]

BSS_deliver_message(process, message) ==
    [process EXCEPT
        !.delivered = Append(@, message.msg_id),
        !.vector_clock[message.sender] = message.tag[message.sender]]

\* st = [proc, log]: the process and the log lines written so far
RECURSIVE BSS_try_deliver_pending(_)
BSS_try_deliver_pending(st) ==
    LET i == FirstIndex([k \in 1 .. Len(st.proc.pending) |->
                            BSS_is_deliverable(st.proc, st.proc.pending[k])])
    IN  IF i = 0 THEN st
        ELSE LET message == st.proc.pending[i]
                 removed == [st.proc EXCEPT !.pending = Remove(@, message)]
                 after   == BSS_deliver_message(removed, message)
             IN  BSS_try_deliver_pending(
                    [proc |-> after,
                     log  |-> Append(st.log,
                                LogLine("delivers pending", st.proc.name, message.msg_id))])

\* mutant: the arrival of a message that is buffered counts as a local event
BSS_receive_message_counts_arrival(process, message) ==
    IF BSS_is_deliverable(process, message)
    THEN LET after == BSS_deliver_message(process, message)
         IN  BSS_try_deliver_pending(
                [proc |-> after,
                 log  |-> <<LogLine("delivers", process.name, message.msg_id)>>])
    ELSE LET after == [process EXCEPT !.pending = Append(@, message),
                                      !.vector_clock[process.name] = @ + 1]
         IN  [proc |-> after,
              log  |-> <<LogLine("buffers", process.name, message.msg_id)>>]

BSS_receive_message(process, message) ==
    IF BSS_is_deliverable(process, message)
    THEN LET after == BSS_deliver_message(process, message)
         IN  BSS_try_deliver_pending(
                [proc |-> after,
                 log  |-> <<LogLine("delivers", process.name, message.msg_id)>>])
    ELSE LET after == [process EXCEPT !.pending = Append(@, message)]
         IN  [proc |-> after,
              log  |-> <<LogLine("buffers", process.name, message.msg_id)>>]

\* mutant: the sender delivers its own message as part of the send
BSS_send_delivers_own(process, msg_id) ==
    LET sender == process.name
        proc   == [process EXCEPT !.vector_clock[sender] = @ + 1]
        tag    == proc.vector_clock
        msg    == Message(msg_id, sender, tag, initial_matrix)
        own    == [proc EXCEPT !.delivered = Append(@, msg_id)]
        st     == BSS_try_deliver_pending([proc |-> own, log |-> <<>>])
    IN  [msg |-> msg, proc |-> st.proc, log |-> st.log]

\* mutant: the timestamp is taken before the clock is advanced
BSS_send_stale_snapshot(process, msg_id) ==
    LET sender == process.name
        proc   == [process EXCEPT !.vector_clock[sender] = @ + 1]
        tag    == process.vector_clock
        msg    == Message(msg_id, sender, tag, initial_matrix)
        st     == BSS_try_deliver_pending([proc |-> proc, log |-> <<>>])
    IN  [msg |-> msg, proc |-> st.proc, log |-> st.log]

\* the send branch of next_step: returns the message and the sender's state
BSS_send(process, msg_id) ==
    LET sender == process.name
        proc   == [process EXCEPT !.vector_clock[sender] = @ + 1]
        tag    == proc.vector_clock
        msg    == Message(msg_id, sender, tag, initial_matrix)
        st     == BSS_try_deliver_pending([proc |-> proc, log |-> <<>>])
    IN  [msg |-> msg, proc |-> st.proc, log |-> st.log]

----------------------------------------------------------------------------
(* SES.py: vector clock, full merge and local increment *)

\* mutant: any later message of the sender passes, not the next one alone
SES_is_deliverable_allows_gaps(process, message) ==
    LET sender == message.sender
    IN  /\ message.tag[sender] >= process.vector_clock[sender] + 1
        /\ \A p \in PROCESS_NAMES \ {sender} :
              message.tag[p] <= process.vector_clock[p]

\* mutant: the receiver's own entry is left out of the comparison
SES_is_deliverable_skips_receiver(process, message) ==
    LET sender == message.sender
    IN  /\ message.tag[sender] = process.vector_clock[sender] + 1
        /\ \A p \in PROCESS_NAMES \ {sender, process.name} :
              message.tag[p] <= process.vector_clock[p]

SES_is_deliverable(process, message) ==
    \A p \in PROCESS_NAMES :
        IF p = message.sender
        THEN message.tag[p] = process.vector_clock[p] + 1
        ELSE message.tag[p] <= process.vector_clock[p]

\* mutant: the timestamp overwrites the clock instead of being merged
SES_deliver_message_overwrite(process, message) ==
    [process EXCEPT
        !.delivered = Append(@, message.msg_id),
        !.vector_clock = [message.tag EXCEPT ![process.name] = @ + 1]]

\* mutant: the merge alone, a delivery is no event of the receiver
SES_deliver_message_merge_only(process, message) ==
    [process EXCEPT
        !.delivered = Append(@, message.msg_id),
        !.vector_clock = [p \in PROCESS_NAMES |->
                             Max(process.vector_clock[p], message.tag[p])]]

\* mutant: the receiver's delivery event is counted before the merge
SES_deliver_message_event_first(process, message) ==
    LET ticked == [process.vector_clock EXCEPT ![process.name] = @ + 1]
    IN  [process EXCEPT
            !.delivered = Append(@, message.msg_id),
            !.vector_clock = [p \in PROCESS_NAMES |->
                                 Max(ticked[p], message.tag[p])]]

SES_deliver_message(process, message) ==
    LET merged == [p \in PROCESS_NAMES |->
                      Max(process.vector_clock[p], message.tag[p])]
    IN  [process EXCEPT
            !.delivered = Append(@, message.msg_id),
            !.vector_clock = [merged EXCEPT ![process.name] = @ + 1]]

RECURSIVE SES_try_deliver_pending(_)
SES_try_deliver_pending(st) ==
    LET i == FirstIndex([k \in 1 .. Len(st.proc.pending) |->
                            SES_is_deliverable(st.proc, st.proc.pending[k])])
    IN  IF i = 0 THEN st
        ELSE LET m       == st.proc.pending[i]
                 removed == [st.proc EXCEPT !.pending = Remove(@, m)]
                 after   == SES_deliver_message(removed, m)
             IN  SES_try_deliver_pending(
                    [proc |-> after,
                     log  |-> Append(st.log,
                                LogLine("delivers buffered", st.proc.name, m.msg_id))])

\* mutant: a delivery is not followed by a drain of the pending list
SES_receive_message_no_drain(process, message) ==
    IF SES_is_deliverable(process, message)
    THEN [proc |-> SES_deliver_message(process, message),
          log  |-> <<LogLine("delivers", process.name, message.msg_id)>>]
    ELSE [proc |-> [process EXCEPT !.pending = Append(@, message)],
          log  |-> <<LogLine("buffers", process.name, message.msg_id)>>]

SES_receive_message(process, message) ==
    IF SES_is_deliverable(process, message)
    THEN LET after == SES_deliver_message(process, message)
         IN  SES_try_deliver_pending(
                [proc |-> after,
                 log  |-> <<LogLine("delivers", process.name, message.msg_id)>>])
    ELSE LET after == [process EXCEPT !.pending = Append(@, message)]
         IN  [proc |-> after,
              log  |-> <<LogLine("buffers", process.name, message.msg_id)>>]

\* the send branch of next_step: no drain after a send
\* mutant: the tag is the clock before the send event is counted
SES_send_stale_snapshot(process, msg_id) ==
    LET sender == process.name
        tag    == process.vector_clock
        proc   == [process EXCEPT !.vector_clock[sender] = @ + 1]
        msg    == Message(msg_id, sender, tag, initial_matrix)
    IN  [msg |-> msg, proc |-> proc, log |-> <<>>]

SES_send(process, msg_id) ==
    LET sender == process.name
        proc   == [process EXCEPT !.vector_clock[sender] = @ + 1]
        tag    == proc.vector_clock
        msg    == Message(msg_id, sender, tag, initial_matrix)
    IN  [msg |-> msg, proc |-> proc, log |-> <<>>]

----------------------------------------------------------------------------
(* matrix_clock.py: matrix clock, diagonal test, full merge *)

\* mutant: any later message of the sender passes, not the next one alone
MC_is_deliverable_allows_gaps(process, message) ==
    LET sender == message.sender
        local  == process.matrix
    IN  /\ message.matrix[sender][sender] >= local[sender][sender] + 1
        /\ \A p \in PROCESS_NAMES :
              p # sender => message.matrix[p][p] <= local[p][p]

\* mutant: the rows of the other processes are compared cell by cell
MC_is_deliverable_whole_rows(process, message) ==
    LET sender == message.sender
        local  == process.matrix
    IN  /\ message.matrix[sender][sender] = local[sender][sender] + 1
        /\ \A p \in PROCESS_NAMES : p # sender =>
              \A q \in PROCESS_NAMES : message.matrix[p][q] <= local[p][q]

MC_is_deliverable(process, message) ==
    LET sender == message.sender
        local  == process.matrix
    IN  /\ message.matrix[sender][sender] = local[sender][sender] + 1
        /\ \A p \in PROCESS_NAMES :
              p # sender => message.matrix[p][p] <= local[p][p]

\* mutant: the delivery is counted in the sender's cell, not the receiver's
MC_deliver_message_ticks_sender(process, message) ==
    LET merged == [p \in PROCESS_NAMES |-> [q \in PROCESS_NAMES |->
                      Max(process.matrix[p][q], message.matrix[p][q])]]
    IN  [process EXCEPT
            !.delivered = Append(@, message.msg_id),
            !.matrix = [merged EXCEPT ![message.sender][message.sender] = @ + 1]]

\* mutant: only the diagonal cells are merged
MC_deliver_message_diagonal_merge(process, message) ==
    LET merged == [p \in PROCESS_NAMES |-> [q \in PROCESS_NAMES |->
                      IF p = q
                      THEN Max(process.matrix[p][q], message.matrix[p][q])
                      ELSE process.matrix[p][q]]]
    IN  [process EXCEPT
            !.delivered = Append(@, message.msg_id),
            !.matrix = [merged EXCEPT ![process.name][process.name] = @ + 1]]

MC_deliver_message(process, message) ==
    LET merged == [p \in PROCESS_NAMES |-> [q \in PROCESS_NAMES |->
                      Max(process.matrix[p][q], message.matrix[p][q])]]
    IN  [process EXCEPT
            !.delivered = Append(@, message.msg_id),
            !.matrix = [merged EXCEPT ![process.name][process.name] = @ + 1]]

\* mutant: a delivery takes every copy of the message out of the pending list
RECURSIVE MC_try_deliver_pending_removes_copies(_)
MC_try_deliver_pending_removes_copies(st) ==
    LET i == FirstIndex([k \in 1 .. Len(st.proc.pending) |->
                            MC_is_deliverable(st.proc, st.proc.pending[k])])
    IN  IF i = 0 THEN st
        ELSE LET m       == st.proc.pending[i]
                 removed == [st.proc EXCEPT !.pending =
                                SelectSeq(@, LAMBDA x : x # m)]
                 after   == MC_deliver_message(removed, m)
             IN  MC_try_deliver_pending_removes_copies(
                    [proc |-> after,
                     log  |-> Append(st.log,
                                LogLine("delivers buffered", st.proc.name, m.msg_id))])

RECURSIVE MC_try_deliver_pending(_)
MC_try_deliver_pending(st) ==
    LET i == FirstIndex([k \in 1 .. Len(st.proc.pending) |->
                            MC_is_deliverable(st.proc, st.proc.pending[k])])
    IN  IF i = 0 THEN st
        ELSE LET m       == st.proc.pending[i]
                 removed == [st.proc EXCEPT !.pending = Remove(@, m)]
                 after   == MC_deliver_message(removed, m)
             IN  MC_try_deliver_pending(
                    [proc |-> after,
                     log  |-> Append(st.log,
                                LogLine("delivers buffered", st.proc.name, m.msg_id))])

\* mutant: delivers whatever arrives, without the deliverability test
MC_receive_message_unchecked(process, message) ==
    LET after == MC_deliver_message(process, message)
    IN  MC_try_deliver_pending(
           [proc |-> after,
            log  |-> <<LogLine("delivers", process.name, message.msg_id)>>])

MC_receive_message(process, message) ==
    IF MC_is_deliverable(process, message)
    THEN LET after == MC_deliver_message(process, message)
         IN  MC_try_deliver_pending(
                [proc |-> after,
                 log  |-> <<LogLine("delivers", process.name, message.msg_id)>>])
    ELSE LET after == [process EXCEPT !.pending = Append(@, message)]
         IN  [proc |-> after,
              log  |-> <<LogLine("buffers", process.name, message.msg_id)>>]

\* mutant: a send advances every cell of the sender's own row
MC_send_whole_row(process, msg_id) ==
    LET sender   == process.name
        proc     == [process EXCEPT !.matrix[sender] =
                        [q \in PROCESS_NAMES |-> process.matrix[sender][q] + 1]]
        snapshot == proc.matrix
        from_msg == Message(msg_id, sender, initial_vector, snapshot)
    IN  [msg |-> from_msg, proc |-> proc, log |-> <<>>]

\* the send branch of next_step: no drain after a send
MC_send(process, msg_id) ==
    LET sender   == process.name
        proc     == [process EXCEPT !.matrix[sender][sender] = @ + 1]
        snapshot == proc.matrix
        from_msg == Message(msg_id, sender, initial_vector, snapshot)
    IN  [msg |-> from_msg, proc |-> proc, log |-> <<>>]

----------------------------------------------------------------------------
(* DistributedApp.py: matrix clock, drain after a send *)

\* mutant: a process accepts a message it sent itself without a test
DA_is_deliverable_own_accepted(process, message) ==
    LET sender == message.sender
        local  == process.matrix
    IN  \/ sender = process.name
        \/ /\ message.matrix[sender][sender] = local[sender][sender] + 1
           /\ \A p \in PROCESS_NAMES :
                 p # sender => message.matrix[p][p] <= local[p][p]

\* mutant: the sender's diagonal is tested with <= instead of ==
DA_is_deliverable_at_most(process, message) ==
    LET sender == message.sender
        local  == process.matrix
    IN  /\ message.matrix[sender][sender] <= local[sender][sender] + 1
        /\ \A p \in PROCESS_NAMES :
              p # sender => message.matrix[p][p] <= local[p][p]

DA_is_deliverable(process, message) ==
    LET sender == message.sender
        local  == process.matrix
    IN  /\ message.matrix[sender][sender] = local[sender][sender] + 1
        /\ \A p \in PROCESS_NAMES :
              p # sender => message.matrix[p][p] <= local[p][p]

\* mutant: a send counts as two events of the sender
DA_send_message_two_events(process) ==
    LET proc == [process EXCEPT !.matrix[process.name][process.name] = @ + 2]
    IN  [snapshot |-> proc.matrix, proc |-> proc]

\* Process.send_message: returns the snapshot and the sender's state
DA_send_message(process) ==
    LET proc == [process EXCEPT !.matrix[process.name][process.name] = @ + 1]
    IN  [snapshot |-> proc.matrix, proc |-> proc]

\* mutant: the receiver also records the sender's counter in its own row
DA_deliver_message_records_row(process, message) ==
    LET merged == [p \in PROCESS_NAMES |-> [q \in PROCESS_NAMES |->
                      Max(process.matrix[p][q], message.matrix[p][q])]]
        sender == message.sender
        own    == process.name
    IN  [process EXCEPT
            !.delivered = Append(@, message.msg_id),
            !.matrix = [merged EXCEPT
                           ![own][sender] = message.matrix[sender][sender],
                           ![own][own] = merged[own][own] + 1]]

\* mutant: the merge alone, without the receiver's own delivery event
DA_deliver_message_merge_only(process, message) ==
    [process EXCEPT
        !.delivered = Append(@, message.msg_id),
        !.matrix = [p \in PROCESS_NAMES |-> [q \in PROCESS_NAMES |->
                       Max(process.matrix[p][q], message.matrix[p][q])]]]

DA_deliver_message(process, message) ==
    LET merged == [p \in PROCESS_NAMES |-> [q \in PROCESS_NAMES |->
                      Max(process.matrix[p][q], message.matrix[p][q])]]
    IN  [process EXCEPT
            !.delivered = Append(@, message.msg_id),
            !.matrix = [merged EXCEPT ![process.name][process.name] = @ + 1]]

RECURSIVE DA_try_deliver_pending(_)
DA_try_deliver_pending(st) ==
    LET i == FirstIndex([k \in 1 .. Len(st.proc.pending) |->
                            DA_is_deliverable(st.proc, st.proc.pending[k])])
    IN  IF i = 0 THEN st
        ELSE LET msg     == st.proc.pending[i]
                 removed == [st.proc EXCEPT !.pending = Remove(@, msg)]
                 after   == DA_deliver_message(removed, msg)
             IN  DA_try_deliver_pending(
                    [proc |-> after,
                     log  |-> Append(st.log,
                                LogLine("delivers buffered", st.proc.name, msg.msg_id))])

\* mutant: a delivery is not followed by a drain of the pending list
DA_receive_message_no_drain(process, message) ==
    IF DA_is_deliverable(process, message)
    THEN [proc |-> DA_deliver_message(process, message),
          log  |-> <<LogLine("delivers", process.name, message.msg_id)>>]
    ELSE [proc |-> [process EXCEPT !.pending = Append(@, message)],
          log  |-> <<LogLine("buffers", process.name, message.msg_id)>>]

DA_receive_message(process, message) ==
    IF DA_is_deliverable(process, message)
    THEN LET after == DA_deliver_message(process, message)
         IN  DA_try_deliver_pending(
                [proc |-> after,
                 log  |-> <<LogLine("delivers", process.name, message.msg_id)>>])
    ELSE LET after == [process EXCEPT !.pending = Append(@, message)]
         IN  [proc |-> after,
              log  |-> <<LogLine("buffers", process.name, message.msg_id)>>]

\* the send branch of next_step
DA_send(process, msg_id) ==
    LET sent == DA_send_message(process)
        msg  == Message(msg_id, process.name, initial_vector, sent.snapshot)
        st   == DA_try_deliver_pending([proc |-> sent.proc, log |-> <<>>])
    IN  [msg |-> msg, proc |-> st.proc, log |-> st.log]

----------------------------------------------------------------------------
(* The event loop *)

\* Simulation.__init__ / reset_simulation
InitialProcesses == [p \in PROCESS_NAMES |-> Process(p)]

NoMessages == [i \in {} |-> 0]

\* the running program's is_deliverable
is_deliverable(process, message) ==
    CASE variant = "BSS"            -> BSS_is_deliverable(process, message)
      [] variant = "SES"            -> SES_is_deliverable(process, message)
      [] variant = "matrix_clock"   -> MC_is_deliverable(process, message)
      [] variant = "DistributedApp" -> DA_is_deliverable(process, message)

\* the running program's Process.deliver_message
deliver_message(process, message) ==
    CASE variant = "BSS"            -> BSS_deliver_message(process, message)
      [] variant = "SES"            -> SES_deliver_message(process, message)
      [] variant = "matrix_clock"   -> MC_deliver_message(process, message)
      [] variant = "DistributedApp" -> DA_deliver_message(process, message)

\* the running program's Process.receive_message
receive_message(process, message) ==
    CASE variant = "BSS"            -> BSS_receive_message(process, message)
      [] variant = "SES"            -> SES_receive_message(process, message)
      [] variant = "matrix_clock"   -> MC_receive_message(process, message)
      [] variant = "DistributedApp" -> DA_receive_message(process, message)

\* the running program's send branch of next_step
send(process, msg_id) ==
    CASE variant = "BSS"            -> BSS_send(process, msg_id)
      [] variant = "SES"            -> SES_send(process, msg_id)
      [] variant = "matrix_clock"   -> MC_send(process, msg_id)
      [] variant = "DistributedApp" -> DA_send(process, msg_id)

Init ==
    /\ variant \in VARIANTS
    /\ processes = InitialProcesses
    /\ messages = NoMessages
    /\ log = <<>>
    /\ depends = NoMessages

\* ids of the messages sent by process p so far
SentBy(p) == {i \in DOMAIN messages : messages[i].sender = p}

Range(seq) == {seq[i] : i \in 1 .. Len(seq)}

RECURSIVE Sum(_, _)
Sum(f, S) ==
    IF S = {} THEN 0
    ELSE LET x == CHOOSE y \in S : TRUE IN f[x] + Sum(f, S \ {x})

\* receive events of known messages handled so far: each one left its
\* message in the pending list or in the delivered list
Receives ==
    Sum([p \in PROCESS_NAMES |->
            Len(processes[p].delivered) + Len(processes[p].pending)],
        PROCESS_NAMES)

\* mutant: the timestamp is the sender's live clock instead of a copy of it,
\* so each send of p rewrites the timestamps of p's earlier messages
next_step_send_shared_clock(p) ==
    LET msg_id == Cardinality(DOMAIN messages)
        r      == send(processes[p], msg_id)
        direct == SentBy(p) \cup Range(processes[p].delivered)
    IN  /\ msg_id < MaxMsgs
        /\ processes' = [processes EXCEPT ![p] = r.proc]
        /\ messages' = [i \in DOMAIN messages \cup {msg_id} |->
                            IF i = msg_id THEN r.msg
                            ELSE IF messages[i].sender = p
                                 THEN [messages[i] EXCEPT !.tag = r.msg.tag,
                                                          !.matrix = r.msg.matrix]
                                 ELSE messages[i]]
        /\ log' = <<LogLine("send", p, msg_id)>> \o r.log
        /\ depends' = [i \in DOMAIN messages \cup {msg_id} |->
                            IF i = msg_id
                            THEN direct \cup UNION {depends[d] : d \in direct}
                            ELSE depends[i]]
        /\ UNCHANGED variant

\* next_step, event["type"] == "send"; the event list numbers the sends
\* m0, m1, ... in the order they are sent
handle_send(p) ==
    LET msg_id == Cardinality(DOMAIN messages)
        r      == send(processes[p], msg_id)
        direct == SentBy(p) \cup Range(processes[p].delivered)
    IN  /\ processes' = [processes EXCEPT ![p] = r.proc]
        /\ messages' = [i \in DOMAIN messages \cup {msg_id} |->
                            IF i = msg_id THEN r.msg ELSE messages[i]]
        /\ log' = <<LogLine("send", p, msg_id)>> \o r.log
        /\ depends' = [i \in DOMAIN messages \cup {msg_id} |->
                            IF i = msg_id
                            THEN direct \cup UNION {depends[d] : d \in direct}
                            ELSE depends[i]]
        /\ UNCHANGED variant

\* a send event of the script, while fewer than MaxMsgs messages exist
next_step_send(p) ==
    /\ Cardinality(DOMAIN messages) < MaxMsgs
    /\ handle_send(p)

\* mutant: the message is handed to every process, not to the target alone
next_step_receive_broadcast(p, msg_id) ==
    /\ IF msg_id \in DOMAIN messages
       THEN LET r == receive_message(processes[p], messages[msg_id])
            IN  /\ Receives < MaxReceives
                /\ processes' = [q \in PROCESS_NAMES |->
                        receive_message(processes[q], messages[msg_id]).proc]
                /\ log' = <<LogLine("receive", p, msg_id)>> \o r.log
       ELSE /\ log' = <<LogLine("receive", p, msg_id), LogLine("error", p, msg_id)>>
            /\ UNCHANGED processes
    /\ UNCHANGED <<variant, messages, depends>>

\* mutant: an id that was never sent is buffered instead of reported
next_step_receive_buffers_unknown(p, msg_id) ==
    /\ IF msg_id \in DOMAIN messages
       THEN LET r == receive_message(processes[p], messages[msg_id])
            IN  /\ Receives < MaxReceives
                /\ processes' = [processes EXCEPT ![p] = r.proc]
                /\ log' = <<LogLine("receive", p, msg_id)>> \o r.log
       ELSE /\ Receives < MaxReceives
            /\ processes' = [processes EXCEPT ![p].pending =
                                Append(@, Message(msg_id, p, initial_vector, initial_matrix))]
            /\ log' = <<LogLine("receive", p, msg_id), LogLine("buffers", p, msg_id)>>
    /\ UNCHANGED <<variant, messages, depends>>

\* next_step, event["type"] == "receive"
handle_receive(p, msg_id) ==
    /\ IF msg_id \in DOMAIN messages
       THEN LET r == receive_message(processes[p], messages[msg_id])
            IN  /\ processes' = [processes EXCEPT ![p] = r.proc]
                /\ log' = <<LogLine("receive", p, msg_id)>> \o r.log
       ELSE /\ log' = <<LogLine("receive", p, msg_id), LogLine("error", p, msg_id)>>
            /\ UNCHANGED processes
    /\ UNCHANGED <<variant, messages, depends>>

\* a receive event of the script, while fewer than MaxReceives receives of
\* known messages have been handled
next_step_receive(p, msg_id) ==
    /\ msg_id \in DOMAIN messages => Receives < MaxReceives
    /\ handle_receive(p, msg_id)

\* mutant: the message store survives the reset
reset_simulation_keeps_messages ==
    /\ processes' = InitialProcesses
    /\ log' = <<LogLine("reset", "none", 0)>>
    /\ UNCHANGED <<variant, messages, depends>>

\* DistributedApp.py resets the three fields of each Process in place; the
\* other programs build new Process objects
reset_simulation ==
    /\ processes' = [p \in PROCESS_NAMES |->
                        IF variant = "DistributedApp"
                        THEN [processes[p] EXCEPT !.matrix = initial_matrix,
                                                  !.delivered = <<>>,
                                                  !.pending = <<>>]
                        ELSE Process(p)]
    /\ messages' = NoMessages
    /\ log' = <<LogLine("reset", "none", 0)>>
    /\ depends' = NoMessages
    /\ UNCHANGED variant

Next ==
    \/ \E p \in PROCESS_NAMES : next_step_send(p)
    \/ \E p \in PROCESS_NAMES, msg_id \in MsgIds : next_step_receive(p, msg_id)
    \/ reset_simulation

Spec == Init /\ [][Next]_vars

----------------------------------------------------------------------------
(* Vocabulary of the properties *)

\* the ids in a pending list, in list order
PendingIds(process) == [i \in 1 .. Len(process.pending) |-> process.pending[i].msg_id]

NoDuplicates(seq) == \A i, j \in 1 .. Len(seq) : seq[i] = seq[j] => i = j

\* position of the first x in seq, 0 if absent
Pos(seq, x) == FirstIndex([i \in 1 .. Len(seq) |-> seq[i] = x])

IsPrefix(a, b) == Len(a) <= Len(b) /\ SubSeq(b, 1, Len(a)) = a

\* both clocks of a process (the one its program does not use stays zero)
Clock(process) == <<process.vector_clock, process.matrix>>

\* every component of clock c is <= the same component of clock d
ClockLeq(c, d) ==
    /\ \A k \in PROCESS_NAMES : c[1][k] <= d[1][k]
    /\ \A p, q \in PROCESS_NAMES : c[2][p][q] <= d[2][p][q]

\* the first log line names the command just handled
Handled(kind) == Len(log) > 0 /\ log[1].kind = kind

HandledAt(kind, P, id) == Len(log) > 0 /\ log[1] = LogLine(kind, P, id)

LogKinds == {log[i].kind : i \in 1 .. Len(log)}

Deliveries == {"delivers", "delivers pending", "delivers buffered"}

\* the ids a step appended to P's delivered history
NewDeliveries(P) ==
    IF IsPrefix(processes[P].delivered, processes'[P].delivered)
    THEN SubSeq(processes'[P].delivered,
                Len(processes[P].delivered) + 1, Len(processes'[P].delivered))
    ELSE <<>>

\* P at the moment the step's first delivery is tried: a send by P has
\* advanced P's clock to the snapshot it stored in the new message
StartOf(P) ==
    IF Len(log') > 0 /\ log'[1].kind = "send" /\ log'[1].process = P
    THEN LET msg == messages'[log'[1].msg_id]
         IN  IF variant \in VectorVariants
             THEN [processes[P] EXCEPT !.vector_clock = msg.tag]
             ELSE [processes[P] EXCEPT !.matrix = msg.matrix]
    ELSE processes[P]

\* the states a process goes through when it delivers ids one after another
RECURSIVE Trajectory(_, _, _)
Trajectory(process, ids, msgs) ==
    IF ids = <<>> THEN <<process>>
    ELSE <<process>> \o
         Trajectory(deliver_message(process, msgs[Head(ids)]), Tail(ids), msgs)

\* s sent m0 as its first event and m1 as its next event: m0 depends on
\* nothing and m1 depends on m0 alone
FirstTwo(s, m0, m1) ==
    /\ m0 \in DOMAIN messages /\ m1 \in DOMAIN messages
    /\ depends[m0] = {} /\ depends[m1] = {m0}
    /\ messages[m0].sender = s /\ messages[m1].sender = s

\* q has been given Receive(id) since the last reset
Given(q, id) ==
    id \in Range(processes[q].delivered) \cup Range(PendingIds(processes[q]))

Vec(a, b, c) == [p \in PROCESS_NAMES |->
                    CASE p = "P1" -> a [] p = "P2" -> b [] p = "P3" -> c]

----------------------------------------------------------------------------
(* Properties *)

\* C1 (causal order): whenever m is in P's delivered history, every message m
\* causally depends on that was not sent by P itself is earlier in that history.
C1_CausalOrder ==
    \A P \in PROCESS_NAMES :
        LET d == processes[P].delivered
        IN  \A i \in 1 .. Len(d) : \A dep \in depends[d[i]] :
                messages[dep].sender # P => \E j \in 1 .. (i - 1) : d[j] = dep

\* C1 witness: a process has delivered a message that depends on a message of
\* a third process (its sender had delivered that one before sending).
C1_Witness ==
    \E P \in PROCESS_NAMES : \E m \in Range(processes[P].delivered) :
        \E dep \in depends[m] : messages[dep].sender \notin {P, messages[m].sender}

\* C2 (causal safety): every id a step appends to a delivered history is
\* deliverable, by the program's own is_deliverable, in the state the process
\* has immediately before that delivery is applied; the clock the step leaves
\* is the one these deliveries produce.
C2_CausalSafety ==
    [][\A P \in PROCESS_NAMES :
          \A ids \in {NewDeliveries(P)} :
              ids # <<>> =>
                  \A traj \in {Trajectory(StartOf(P), ids, messages')} :
                      /\ \A i \in 1 .. Len(ids) :
                            is_deliverable(traj[i], messages'[ids[i]])
                      /\ Clock(traj[Len(traj)]) = Clock(processes'[P])]_vars

\* C2 witness: a command delivered one message directly and another from the
\* pending list.
C2_Witness ==
    /\ Handled("receive")
    /\ "delivers" \in LogKinds
    /\ LogKinds \cap {"delivers pending", "delivers buffered"} # {}

\* C3 (at-most-once delivery): no id occurs twice in a delivered history.
C3_AtMostOnce ==
    \A P \in PROCESS_NAMES : NoDuplicates(processes[P].delivered)

\* C3 witness: a process was given the same id more than once and has
\* delivered it.
C3_Witness ==
    \E P \in PROCESS_NAMES : \E id \in Range(processes[P].delivered) :
        id \in Range(PendingIds(processes[P]))

\* C4 (monotonicity): a send or receive command, and each delivery inside it,
\* leaves every clock component of every process >= its value before.
C4_Monotonic ==
    [][(Len(log') > 0 /\ log'[1].kind # "reset") =>
          \A P \in PROCESS_NAMES :
              \/ processes'[P] = processes[P]
              \/ /\ ClockLeq(Clock(processes[P]), Clock(processes'[P]))
                 /\ \A ids \in {NewDeliveries(P)} :
                       ids # <<>> =>
                           \A traj \in {Trajectory(StartOf(P), ids, messages')} :
                               /\ ClockLeq(Clock(processes[P]), Clock(traj[1]))
                               /\ \A i \in 1 .. (Len(traj) - 1) :
                                     ClockLeq(Clock(traj[i]), Clock(traj[i + 1]))
                               /\ Clock(traj[Len(traj)]) = Clock(processes'[P])]_vars

\* C4 witness: a receive delivered a message at a process whose clock already
\* held knowledge of a third process.
C4_Witness ==
    /\ Handled("receive")
    /\ "delivers" \in LogKinds
    /\ LET P == log[1].process
           s == messages[log[1].msg_id].sender
       IN  \E k \in PROCESS_NAMES \ {P, s} :
              processes[P].vector_clock[k] + processes[P].matrix[k][k] > 0

\* m1 is buffered at q: pending and not delivered
C5_Buffered(q, m1) ==
    /\ m1 \in Range(PendingIds(processes[q]))
    /\ m1 \notin Range(processes[q].delivered)

\* the step leaves m0 and, after it, m1 in q's delivered history
C5_Drained(q, m0, m1) ==
    LET d == processes'[q].delivered
    IN  /\ Pos(d, m0) > 0
        /\ Pos(d, m1) > Pos(d, m0)

\* C5 as stated (liveness of buffering, any receiver): s sends m0 and then m1
\* with no delivery in between; a process q that was given Receive(m1) and not
\* yet Receive(m0) has m1 buffered, and the command Receive(q, m0) leaves m0
\* and then m1 in q's delivered history.
C5_AnyReceiver ==
    [][\A m0, m1 \in DOMAIN messages :
          FirstTwo(messages[m0].sender, m0, m1) =>
              \A q \in PROCESS_NAMES :
                  (Given(q, m1) /\ ~Given(q, m0)) =>
                      /\ C5_Buffered(q, m1)
                      /\ (Len(log') > 0 /\ log'[1] = LogLine("receive", q, m0)) =>
                            C5_Drained(q, m0, m1)]_vars

\* C5 amended: the same, for every receiver q other than the sender.
C5_OtherReceiver ==
    [][\A m0, m1 \in DOMAIN messages :
          FirstTwo(messages[m0].sender, m0, m1) =>
              \A q \in PROCESS_NAMES \ {messages[m0].sender} :
                  (Given(q, m1) /\ ~Given(q, m0)) =>
                      /\ C5_Buffered(q, m1)
                      /\ (Len(log') > 0 /\ log'[1] = LogLine("receive", q, m0)) =>
                            C5_Drained(q, m0, m1)]_vars

\* C5 witness: Receive(q, m0) has just delivered m0 and then, from the pending
\* list, m1, at a process q other than their sender.
C5_Witness ==
    \E s, q \in PROCESS_NAMES : \E m0, m1 \in MsgIds :
        /\ q # s /\ FirstTwo(s, m0, m1)
        /\ HandledAt("receive", q, m0)
        /\ Len(log) >= 3
        /\ log[2] = LogLine("delivers", q, m0)
        /\ \E i \in 3 .. Len(log) :
              log[i].msg_id = m1 /\ log[i].kind \in Deliveries
        /\ Pos(processes[q].delivered, m0) < Pos(processes[q].delivered, m1)

\* C6 as stated (idempotent buffering): a pending list holds any id at most once.
C6_PendingOnce ==
    \A P \in PROCESS_NAMES : NoDuplicates(PendingIds(processes[P]))

\* C7 as stated (delivered is terminal): an id in P's delivered history is not
\* in P's pending list after any step, and a Receive of it at P leaves P's
\* clock, history and pending list unchanged.
C7_DeliveredTerminal ==
    [][\A P \in PROCESS_NAMES : \A id \in Range(processes[P].delivered) :
          /\ id \notin Range(PendingIds(processes'[P]))
          /\ (Len(log') > 0 /\ log'[1] = LogLine("receive", P, id)) =>
                processes'[P] = processes[P]]_vars

\* C8 (unknown message): a Receive naming an id that has not been sent since
\* the last reset logs an error and no "buffers" line, and leaves every
\* process and the message store unchanged.
C8_UnknownMessage ==
    [][\A P \in PROCESS_NAMES : \A id \in MsgIds :
          (id \notin DOMAIN messages /\ Len(log') > 0
             /\ log'[1] = LogLine("receive", P, id)) =>
              /\ log' = <<LogLine("receive", P, id), LogLine("error", P, id)>>
              /\ processes' = processes
              /\ messages' = messages
              /\ \A Q \in PROCESS_NAMES :
                    id \notin Range(PendingIds(processes'[Q]))]_vars

\* C8 witness: an unknown id was just reported while another message is known
\* and some process holds state.
C8_Witness ==
    /\ Handled("receive")
    /\ "error" \in LogKinds
    /\ messages # NoMessages
    /\ \E P \in PROCESS_NAMES : processes[P].pending # <<>>

\* C9 (reset): right after reset_simulation every clock component is zero,
\* every history and pending list is empty and the message store is empty: the
\* state is the creation-time state, and no id is known any more.
C9_Reset ==
    Handled("reset") =>
        /\ \A P \in PROCESS_NAMES :
              /\ \A k \in PROCESS_NAMES : processes[P].vector_clock[k] = 0
              /\ \A p, q \in PROCESS_NAMES : processes[P].matrix[p][q] = 0
              /\ processes[P].delivered = <<>>
              /\ processes[P].pending = <<>>
              /\ processes[P].name = P
        /\ DOMAIN messages = {}
        /\ processes = InitialProcesses

\* C9 witness: the simulation has been reset.
C9_Witness == HandledAt("reset", "none", 0)

\* the messages and states of the first events of BSS.py's create_events:
\* P1 has sent a messages, P2 is in state P2, P3 is untouched
C10_Msg(id, a) == Message(id, "P1", Vec(a, 0, 0), initial_matrix)

C10_Procs(a, P2) ==
    [p \in PROCESS_NAMES |->
        CASE p = "P1" -> [Process("P1") EXCEPT !.vector_clock = Vec(a, 0, 0)]
          [] p = "P2" -> P2
          [] p = "P3" -> Process("P3")]

C10_TwoSent == [i \in {0, 1} |-> C10_Msg(i, i + 1)]

C10_After(n) ==
    /\ variant = "BSS"
    /\ CASE n = 0 -> processes = InitialProcesses /\ messages = NoMessages
         [] n = 1 -> /\ processes = C10_Procs(1, Process("P2"))
                     /\ messages = [i \in {0} |-> C10_Msg(0, 1)]
         [] n = 2 -> /\ processes = C10_Procs(2, Process("P2"))
                     /\ messages = C10_TwoSent
         [] n = 3 -> /\ processes = C10_Procs(2,
                            [Process("P2") EXCEPT !.pending = <<C10_Msg(1, 2)>>])
                     /\ messages = C10_TwoSent

\* C10 (BSS.py scenario): from the initial state, P1 sends m0 (clock and
\* timestamp [1,0,0]), P1 sends m1 ([2,0,0]), P2 receives m1 (buffered, clock
\* [0,0,0]), P2 receives m0: m0 is delivered (clock [1,0,0]), then the drain
\* delivers m1 (clock [2,0,0]); history [m0, m1], pending empty.
C10_Scenario ==
    [][/\ (C10_After(0) /\ next_step_send("P1")) =>
             /\ processes'["P1"].vector_clock = Vec(1, 0, 0)
             /\ messages'[0].tag = Vec(1, 0, 0)
             /\ C10_After(1)'
       /\ (C10_After(1) /\ next_step_send("P1")) =>
             /\ processes'["P1"].vector_clock = Vec(2, 0, 0)
             /\ messages'[1].tag = Vec(2, 0, 0)
             /\ C10_After(2)'
       /\ (C10_After(2) /\ next_step_receive("P2", 1)) =>
             /\ log' = <<LogLine("receive", "P2", 1), LogLine("buffers", "P2", 1)>>
             /\ processes'["P2"].vector_clock = Vec(0, 0, 0)
             /\ C10_After(3)'
       /\ (C10_After(3) /\ next_step_receive("P2", 0)) =>
             LET traj == Trajectory(processes["P2"], <<0, 1>>, messages)
             IN  /\ log' = <<LogLine("receive", "P2", 0),
                             LogLine("delivers", "P2", 0),
                             LogLine("delivers pending", "P2", 1)>>
                 /\ traj[2].vector_clock = Vec(1, 0, 0)
                 /\ traj[3].vector_clock = Vec(2, 0, 0)
                 /\ processes'["P2"].vector_clock = Vec(2, 0, 0)
                 /\ processes'["P2"].delivered = <<0, 1>>
                 /\ processes'["P2"].pending = <<>>
                 /\ processes' = [processes EXCEPT !["P2"] = processes'["P2"]]
                 /\ messages' = messages]_vars

\* C10 witness: the state the four events of the scenario end in.
C10_Witness ==
    /\ variant = "BSS"
    /\ messages = C10_TwoSent
    /\ processes = C10_Procs(2, [Process("P2") EXCEPT
                                    !.vector_clock = Vec(2, 0, 0),
                                    !.delivered = <<0, 1>>])
    /\ log = <<LogLine("receive", "P2", 0), LogLine("delivers", "P2", 0),
               LogLine("delivers pending", "P2", 1)>>

Diag(a, b, c) ==
    [p \in PROCESS_NAMES |-> [q \in PROCESS_NAMES |->
        IF p = q THEN Vec(a, b, c)[p] ELSE 0]]

\* the messages and states of the first events of create_events in
\* matrix_clock.py and DistributedApp.py: P1 has sent a messages, P2 is in
\* state P2, P3 is untouched
C11_Msg(id, a) == Message(id, "P1", initial_vector, Diag(a, 0, 0))

C11_Procs(a, P2) ==
    [p \in PROCESS_NAMES |->
        CASE p = "P1" -> [Process("P1") EXCEPT !.matrix = Diag(a, 0, 0)]
          [] p = "P2" -> P2
          [] p = "P3" -> Process("P3")]

C11_TwoSent == [i \in {0, 1} |-> C11_Msg(i, i + 1)]

C11_After(n) ==
    /\ variant \in MatrixVariants
    /\ CASE n = 0 -> processes = InitialProcesses /\ messages = NoMessages
         [] n = 1 -> /\ processes = C11_Procs(1, Process("P2"))
                     /\ messages = [i \in {0} |-> C11_Msg(0, 1)]
         [] n = 2 -> /\ processes = C11_Procs(2, Process("P2"))
                     /\ messages = C11_TwoSent
         [] n = 3 -> /\ processes = C11_Procs(2,
                            [Process("P2") EXCEPT !.pending = <<C11_Msg(1, 2)>>])
                     /\ messages = C11_TwoSent

\* C11 (matrix scenario, matrix_clock.py and DistributedApp.py): P1 sends m0
\* then m1 and P2 receives m1, which is buffered. Receive(P2, m0) then delivers
\* m0, after which P2's matrix has [P1][P1] = 1, [P2][P2] = 1 and every other
\* cell 0; the drain of the same command delivers m1 and leaves [P1][P1] = 2,
\* [P2][P2] = 2, history [m0, m1] and an empty pending list.
C11_MatrixScenario ==
    [][/\ (C11_After(0) /\ next_step_send("P1")) => C11_After(1)'
       /\ (C11_After(1) /\ next_step_send("P1")) => C11_After(2)'
       /\ (C11_After(2) /\ next_step_receive("P2", 1)) =>
             /\ log' = <<LogLine("receive", "P2", 1), LogLine("buffers", "P2", 1)>>
             /\ C11_After(3)'
       /\ (C11_After(3) /\ next_step_receive("P2", 0)) =>
             \A traj \in {Trajectory(processes["P2"], <<0, 1>>, messages)} :
                 /\ log' = <<LogLine("receive", "P2", 0),
                             LogLine("delivers", "P2", 0),
                             LogLine("delivers buffered", "P2", 1)>>
                 /\ traj[2].matrix = Diag(1, 1, 0)
                 /\ traj[3].matrix = Diag(2, 2, 0)
                 /\ processes'["P2"].matrix = Diag(2, 2, 0)
                 /\ processes'["P2"].delivered = <<0, 1>>
                 /\ processes'["P2"].pending = <<>>]_vars

\* C11 witness: the state the scenario ends in.
C11_Witness ==
    /\ variant \in MatrixVariants
    /\ messages = C11_TwoSent
    /\ processes = C11_Procs(2, [Process("P2") EXCEPT
                                    !.matrix = Diag(2, 2, 0),
                                    !.delivered = <<0, 1>>])
    /\ log = <<LogLine("receive", "P2", 0), LogLine("delivers", "P2", 0),
               LogLine("delivers buffered", "P2", 1)>>

\* the timestamp a message carries: the vector in BSS.py and SES.py, the
\* matrix in matrix_clock.py and DistributedApp.py
Timestamp(message) ==
    IF variant \in VectorVariants THEN message.tag ELSE message.matrix

\* P's clock right after the increment of a Send
Incremented(process) ==
    IF variant \in VectorVariants
    THEN [process.vector_clock EXCEPT ![process.name] = @ + 1]
    ELSE [process.matrix EXCEPT ![process.name][process.name] = @ + 1]

\* C12 (snapshot isolation): the message a Send stores carries the sender's
\* clock as it is right after the Send's increment, and no later Send,
\* Receive or drain changes the timestamp of a message that already exists.
C12_SnapshotIsolation ==
    [][log'[1].kind # "reset" =>
          /\ \A id \in DOMAIN messages :
                /\ id \in DOMAIN messages'
                /\ Timestamp(messages'[id]) = Timestamp(messages[id])
          /\ \A id \in DOMAIN messages' \ DOMAIN messages :
                /\ log'[1] = LogLine("send", messages'[id].sender, id)
                /\ Timestamp(messages'[id]) =
                       Incremented(processes[messages'[id].sender])]_vars

\* C12 witness: a message exists whose sender has sent again since and one of
\* whose receivers has delivered it and drained its pending list.
C12_Witness ==
    /\ Handled("receive")
    /\ LogKinds \cap {"delivers pending", "delivers buffered"} # {}
    /\ \E id \in DOMAIN messages : \E later \in DOMAIN messages :
          /\ later > id
          /\ messages[later].sender = messages[id].sender
          /\ \E P \in PROCESS_NAMES : id \in Range(processes[P].delivered)

\* C13 (per-process ownership): a Send by P or a Receive targeting P, with
\* every delivery of its drain, leaves the clock, the delivered history and
\* the pending list of every other process as they were.
C13_Ownership ==
    [][\A P \in PROCESS_NAMES :
          (log'[1].kind \in {"send", "receive"} /\ log'[1].process = P) =>
              \A Q \in PROCESS_NAMES \ {P} :
                  /\ Clock(processes'[Q]) = Clock(processes[Q])
                  /\ processes'[Q].delivered = processes[Q].delivered
                  /\ processes'[Q].pending = processes[Q].pending]_vars

\* C13 witness: a Receive delivered from the pending list of its target while
\* another process has a delivered history or a pending list of its own.
C13_Witness ==
    /\ Handled("receive")
    /\ LogKinds \cap {"delivers pending", "delivers buffered"} # {}
    /\ \E Q \in PROCESS_NAMES \ {log[1].process} :
          processes[Q].pending # <<>> \/ processes[Q].delivered # <<>>

\* C14 (own row is the local vector clock): in matrix_clock.py and
\* DistributedApp.py, for every process P and every q, the cell
\* matrix_P[P][q] of P's own row equals matrix_P[q][q], the value P's
\* deliverability test uses as its knowledge of q's counter.
C14_OwnRow ==
    variant \in MatrixVariants =>
        \A P \in PROCESS_NAMES : \A q \in PROCESS_NAMES :
            processes[P].matrix[P][q] = processes[P].matrix[q][q]

\* the number of messages sent by k in P's delivered history
DeliveredFrom(P, k) ==
    Cardinality({i \in 1 .. Len(processes[P].delivered) :
                    messages[processes[P].delivered[i]].sender = k})

\* C15 (vector clock entries are event counts): in BSS.py and SES.py, for
\* every process P and every other process k, clock_P[k] is the number of
\* messages of k in P's delivered history; clock_P[P] is the number of sends
\* of P in BSS.py and the number of sends of P plus the number of deliveries
\* at P in SES.py.
C15_EventCounts ==
    variant \in VectorVariants =>
        \A P \in PROCESS_NAMES :
            /\ \A k \in PROCESS_NAMES \ {P} :
                  processes[P].vector_clock[k] = DeliveredFrom(P, k)
            /\ processes[P].vector_clock[P] =
                  IF variant = "BSS"
                  THEN Cardinality(SentBy(P))
                  ELSE Cardinality(SentBy(P)) + Len(processes[P].delivered)

\* C15 witness: in SES.py a process that has sent a message has also
\* delivered a message of another process, so its own entry counts both.
C15_Witness ==
    /\ variant = "SES"
    /\ \E P \in PROCESS_NAMES : \E k \in PROCESS_NAMES \ {P} :
          /\ SentBy(P) # {}
          /\ DeliveredFrom(P, k) = 1
          /\ processes[P].vector_clock[P] = 2

\* C18 (Send, every variant): Send(P, id) raises exactly one cell of P's
\* clock, clock_P[P] or matrix_P[P][P], by exactly 1, leaves every other cell
\* of P's clock as it was, and stores under id a message whose sender is P and
\* whose timestamp is a copy of the resulting clock.
C18_Send ==
    [][log'[1].kind = "send" =>
          \A P \in {log'[1].process} : \A id \in {log'[1].msg_id} :
              /\ \A k \in PROCESS_NAMES :
                    processes'[P].vector_clock[k] =
                        IF k = P /\ variant \in VectorVariants
                        THEN processes[P].vector_clock[k] + 1
                        ELSE processes[P].vector_clock[k]
              /\ \A p \in PROCESS_NAMES, q \in PROCESS_NAMES :
                    processes'[P].matrix[p][q] =
                        IF p = P /\ q = P /\ variant \in MatrixVariants
                        THEN processes[P].matrix[p][q] + 1
                        ELSE processes[P].matrix[p][q]
              /\ id \notin DOMAIN messages
              /\ DOMAIN messages' = DOMAIN messages \cup {id}
              /\ messages'[id].msg_id = id
              /\ messages'[id].sender = P
              /\ Timestamp(messages'[id]) =
                    IF variant \in VectorVariants
                    THEN processes'[P].vector_clock
                    ELSE processes'[P].matrix]_vars

\* C18 witness: a process that has a delivered history and a pending message
\* has sent a message.
C18_Witness ==
    /\ Handled("send")
    /\ processes[log[1].process].delivered # <<>>
    /\ processes[log[1].process].pending # <<>>

----------------------------------------------------------------------------
(* The functions of a Process on their own: is_deliverable and
   deliver_message applied once to a clock and a message drawn from every
   combination of small values, whether or not a run of the event loop
   produces that combination *)

MaxClock == 1

ClockValues == 0 .. MaxClock

\* the matrix with diagonal d and the value o in every other cell
MatrixOf(d, o) ==
    [p \in PROCESS_NAMES |-> [q \in PROCESS_NAMES |-> IF p = q THEN d[p] ELSE o]]

\* the process the function is called on, and its argument
Self == processes[log[1].process]

Arg == messages[0]

InitFunctions ==
    /\ variant \in VARIANTS
    /\ \E self \in PROCESS_NAMES, sender \in PROCESS_NAMES,
          c \in [PROCESS_NAMES -> ClockValues],
          t \in [PROCESS_NAMES -> ClockValues],
          co \in ClockValues, to \in ClockValues :
          /\ variant \in VectorVariants => co = 0 /\ to = 0
          /\ processes = [p \in PROCESS_NAMES |->
                IF p # self THEN Process(p)
                ELSE IF variant \in VectorVariants
                     THEN [Process(p) EXCEPT !.vector_clock = c]
                     ELSE [Process(p) EXCEPT !.matrix = MatrixOf(c, co)]]
          /\ messages = [i \in {0} |->
                IF variant \in VectorVariants
                THEN Message(0, sender, t, initial_matrix)
                ELSE Message(0, sender, initial_vector, MatrixOf(t, to))]
          /\ log = <<LogLine("call", self, 0)>>
    /\ depends = [i \in {0} |-> {}]

\* self.is_deliverable(message)
call_is_deliverable ==
    /\ Len(log) = 1
    /\ log' = Append(log, LogLine(IF is_deliverable(Self, Arg)
                                  THEN "deliverable" ELSE "not deliverable",
                                  Self.name, 0))
    /\ UNCHANGED <<variant, processes, messages, depends>>

\* self.deliver_message(message)
call_deliver_message ==
    /\ Len(log) = 1
    /\ processes' = [processes EXCEPT ![Self.name] = deliver_message(@, Arg)]
    /\ log' = Append(log, LogLine("delivers", Self.name, 0))
    /\ UNCHANGED <<variant, messages, depends>>

NextFunctions == call_is_deliverable \/ call_deliver_message

FunctionSpec == InitFunctions /\ [][NextFunctions]_vars

\* the last call was is_deliverable and returned result
Returned(result) ==
    /\ Len(log) = 2
    /\ log[2].kind = (IF result THEN "deliverable" ELSE "not deliverable")

Tested == Returned(TRUE) \/ Returned(FALSE)

OffDiagonal(matrix, p, q, v) ==
    IF p = q THEN matrix ELSE [matrix EXCEPT ![p][q] = v]

Delivered == Len(log) = 2 /\ log[2].kind = "delivers"

\* C19 (partial-update delivery, BSS.py): delivering a message of sender s at
\* P sets clock_P[s] to timestamp[s] and leaves every other entry as it was,
\* clock_P[P] included.
C19_PartialUpdate ==
    [][(variant = "BSS" /\ call_deliver_message) =>
          \A s \in {Arg.sender} : \A P \in {Self.name} :
              /\ processes'[P].vector_clock[s] = Arg.tag[s]
              /\ \A k \in PROCESS_NAMES \ {s} :
                    processes'[P].vector_clock[k] = Self.vector_clock[k]
              /\ s # P => processes'[P].vector_clock[P] = Self.vector_clock[P]]_vars

\* C19 witness: BSS.py has delivered a message of another process whose
\* timestamp is ahead of the receiver in an entry that is not the sender's,
\* and the receiver's entry is still behind it.
C19_Witness ==
    /\ variant = "BSS"
    /\ Delivered
    /\ Arg.sender # Self.name
    /\ Self.vector_clock[Arg.sender] = Arg.tag[Arg.sender]
    /\ \E k \in PROCESS_NAMES \ {Arg.sender} : Self.vector_clock[k] < Arg.tag[k]

\* C20 (full-merge delivery, SES.py): delivering a message at P sets every
\* entry k to max(old clock_P[k], timestamp[k]) and then adds 1 to clock_P[P],
\* so the new clock_P[P] is max(old clock_P[P], timestamp[P]) + 1.
C20_FullMerge ==
    [][(variant = "SES" /\ call_deliver_message) =>
          \A P \in {Self.name} :
              /\ \A k \in PROCESS_NAMES \ {P} :
                    processes'[P].vector_clock[k] =
                        Max(Self.vector_clock[k], Arg.tag[k])
              /\ processes'[P].vector_clock[P] =
                    Max(Self.vector_clock[P], Arg.tag[P]) + 1]_vars

\* C20 witness: SES.py has delivered a message of another process; the
\* receiver's own entry is one above the timestamp's, an entry of a third
\* process is above the timestamp's and the sender's entry equals it.
C20_Witness ==
    /\ variant = "SES"
    /\ Delivered
    /\ Arg.sender # Self.name
    /\ Arg.tag[Self.name] > 0
    /\ Self.vector_clock[Self.name] = Arg.tag[Self.name] + 1
    /\ Self.vector_clock[Arg.sender] = Arg.tag[Arg.sender]
    /\ \E k \in PROCESS_NAMES \ {Arg.sender, Self.name} :
          Self.vector_clock[k] > Arg.tag[k]

\* C21 (matrix delivery, matrix_clock.py and DistributedApp.py): delivering a
\* message at P sets every cell (p, q) of P's matrix to
\* max(old matrix_P[p][q], message.matrix[p][q]) and then adds 1 to
\* matrix_P[P][P]; the matrix is changed in no other way.
C21_MatrixDelivery ==
    [][(variant \in MatrixVariants /\ call_deliver_message) =>
          \A P \in {Self.name} :
              \A p \in PROCESS_NAMES, q \in PROCESS_NAMES :
                  processes'[P].matrix[p][q] =
                      Max(Self.matrix[p][q], Arg.matrix[p][q])
                          + (IF p = P /\ q = P THEN 1 ELSE 0)]_vars

\* C21 witness: a matrix program has delivered a message of another process;
\* cells off the diagonal hold the message's value, above the initial 0, and
\* the receiver's own cell is one above the message's.
C21_Witness ==
    /\ variant \in MatrixVariants
    /\ Delivered
    /\ Arg.sender # Self.name
    /\ Arg.matrix[Self.name][Self.name] > 0
    /\ Self.matrix[Self.name][Self.name] = Arg.matrix[Self.name][Self.name] + 1
    /\ \E p \in PROCESS_NAMES, q \in PROCESS_NAMES :
          p # q /\ Self.matrix[p][q] = Arg.matrix[p][q] /\ Arg.matrix[p][q] > 0
    /\ \E k \in PROCESS_NAMES \ {Self.name} :
          Self.matrix[k][k] > Arg.matrix[k][k]

\* C22 (own diagonal cell, matrix_clock.py and DistributedApp.py): over any
\* sequence of Send and Receive commands, every Send by P and every delivery
\* at P raises matrix_P[P][P] by exactly 1, the merge of a delivery never
\* raises it, nothing else changes it, and every other cell of P's matrix
\* changes only in the merge of a delivery at P.
C22_OwnDiagonal ==
    [][(variant \in MatrixVariants /\ log'[1].kind # "reset") =>
          \A P \in PROCESS_NAMES :
              \/ processes'[P] = processes[P]
              \/ \A ids \in {NewDeliveries(P)} :
                 \A sends \in {IF log'[1] = LogLine("send", P, log'[1].msg_id)
                               THEN 1 ELSE 0} :
                    /\ processes'[P].matrix[P][P] =
                          processes[P].matrix[P][P] + sends + Len(ids)
                    /\ StartOf(P).matrix =
                          [processes[P].matrix EXCEPT ![P][P] = @ + sends]
                    /\ ids = <<>> => processes'[P].matrix = StartOf(P).matrix
                    /\ ids # <<>> =>
                          \A traj \in {Trajectory(StartOf(P), ids, messages')} :
                              /\ \A i \in 1 .. Len(ids) :
                                    /\ messages'[ids[i]].matrix[P][P] <=
                                           traj[i].matrix[P][P]
                                    /\ traj[i + 1].matrix[P][P] =
                                           traj[i].matrix[P][P] + 1
                              /\ traj[Len(traj)].matrix = processes'[P].matrix]_vars

\* C22 witness: a process that has sent a message has delivered two messages
\* in one command, and its own diagonal cell counts the three events.
C22_Witness ==
    /\ variant \in MatrixVariants
    /\ Handled("receive")
    /\ "delivers buffered" \in LogKinds
    /\ \E P \in {log[1].process} :
          /\ Len(processes[P].delivered) = 2
          /\ processes[P].matrix[P][P] = 2 + Cardinality(SentBy(P))

\* C23 (a Send never causes a delivery): in every variant a Send by P leaves
\* P's delivered history and P's pending list as they were; the drain that
\* BSS.py and DistributedApp.py run after the Send delivers nothing, so the
\* command logs nothing after its own line.
C23_SendDeliversNothing ==
    [][log'[1].kind = "send" =>
          \A P \in {log'[1].process} :
              /\ processes'[P].delivered = processes[P].delivered
              /\ processes'[P].pending = processes[P].pending
              /\ log' = <<LogLine("send", P, log'[1].msg_id)>>]_vars

\* C23 witness: in a program that drains after a Send, a process has sent a
\* message while a message it has not delivered was in its pending list.
C23_Witness ==
    /\ variant \in {"BSS", "DistributedApp"}
    /\ Handled("send")
    /\ \E P \in {log[1].process} :
          \E id \in Range(PendingIds(processes[P])) :
              /\ id \notin Range(processes[P].delivered)
              /\ id # log[1].msg_id

\* C24 (drain fixed point): in every variant, once a Send or Receive command
\* has completed, no message in the pending list of any process is
\* deliverable against that process's clock; this includes SES.py and
\* matrix_clock.py, which do not drain after a Send.
C24_FixedPoint ==
    \A P \in PROCESS_NAMES :
        \A k \in 1 .. Len(processes[P].pending) :
            ~ is_deliverable(processes[P], processes[P].pending[k])

\* C24 witness: a Receive has delivered from the pending list and left a
\* message in it, or a Send of a program that does not drain after it has
\* completed at a process with a pending message.
C24_Witness ==
    \E P \in {IF Len(log) > 0 THEN log[1].process ELSE "none"} \cap PROCESS_NAMES :
        /\ processes[P].pending # <<>>
        /\ \/ Handled("receive") /\ LogKinds \cap {"delivers pending", "delivers buffered"} # {}
           \/ Handled("send") /\ variant \in {"SES", "matrix_clock"}
                              /\ processes[P].delivered # <<>>

\* the ids a command's drain delivered, in order: the log lines that
\* try_deliver_pending wrote
Drained(lines) ==
    LET hits == SelectSeq(lines, LAMBDA l : l.kind \in {"delivers pending",
                                                         "delivers buffered"})
    IN  [i \in 1 .. Len(hits) |-> hits[i].msg_id]

\* the number of times x occurs in seq
Count(seq, x) == Cardinality({i \in 1 .. Len(seq) : seq[i] = x})

\* C27 (drain termination): in every variant and from every reachable state,
\* try_deliver_pending comes to an end, delivers at most as many messages as
\* the pending list held when it started, and each of its deliveries takes
\* exactly one entry out of the pending list.
C27_DrainBounded ==
    [][(log'[1].kind \in {"send", "receive"} /\ log'[Len(log')].kind # "buffers") =>
          \A P \in {log'[1].process} : \A ids \in {Drained(log')} :
              /\ Len(ids) <= Len(processes[P].pending)
              /\ Len(processes'[P].pending) = Len(processes[P].pending) - Len(ids)
              /\ \A id \in MsgIds :
                    Count(PendingIds(processes'[P]), id) =
                        Count(PendingIds(processes[P]), id) - Count(ids, id)
              /\ \A n \in {Len(processes'[P].delivered) - Len(ids)} :
                    /\ n >= Len(processes[P].delivered)
                    /\ SubSeq(processes'[P].delivered, n + 1,
                              Len(processes'[P].delivered)) = ids]_vars

\* C27 witness: a drain has delivered one of two copies of a message and
\* left the other in the pending list.
C27_Witness ==
    /\ Handled("receive")
    /\ \E P \in {log[1].process} : \E id \in Range(Drained(log)) :
          /\ id \in Range(PendingIds(processes[P]))
          /\ id \in Range(processes[P].delivered)

\* C28 (buffering has no side effect on the clock): in every variant a
\* Receive of a known message that is not deliverable at its target leaves
\* the target's clock and delivered history as they were, runs no drain and
\* only appends the message to the pending list; a Receive of a deliverable
\* message appends its id to the history in the same command and does not
\* put it in the pending list.
C28_Buffering ==
    [][(log'[1].kind = "receive" /\ log'[1].msg_id \in DOMAIN messages) =>
          \A P \in {log'[1].process} : \A id \in {log'[1].msg_id} :
              IF is_deliverable(processes[P], messages[id])
              THEN /\ Len(processes'[P].delivered) > Len(processes[P].delivered)
                   /\ processes'[P].delivered[Len(processes[P].delivered) + 1] = id
                   /\ id \notin Range(PendingIds(processes'[P]))
                   /\ log'[2] = LogLine("delivers", P, id)
              ELSE /\ Clock(processes'[P]) = Clock(processes[P])
                   /\ processes'[P].delivered = processes[P].delivered
                   /\ processes'[P].pending = Append(processes[P].pending, messages[id])
                   /\ log' = <<LogLine("receive", P, id), LogLine("buffers", P, id)>>]_vars

\* C28 witness: a process that holds a pending message and has a delivered
\* history has buffered a further message it has not delivered.
C28_Witness ==
    /\ Handled("receive")
    /\ Len(log) = 2 /\ log[2].kind = "buffers"
    /\ \E P \in {log[1].process} :
          /\ Len(processes[P].pending) >= 2
          /\ processes[P].delivered # <<>>
          /\ log[1].msg_id \notin Range(processes[P].delivered)

\* P has been given Receive(m) for a message m of another process, and every
\* message m causally depends on that P did not send itself is in P's
\* delivered history
Ready(P, m) ==
    /\ Given(P, m)
    /\ messages[m].sender # P
    /\ \A d \in depends[m] :
          messages[d].sender # P => d \in Range(processes[P].delivered)

\* C29 (progress, BSS.py): when a command has completed, every message of
\* another process that P has been given and whose causal dependencies not
\* sent by P are all in P's delivered history is in P's delivered history
\* itself: it is not left pending.
C29_ProgressPartialUpdate ==
    variant = "BSS" =>
        \A P \in PROCESS_NAMES : \A m \in DOMAIN messages :
            Ready(P, m) => m \in Range(processes[P].delivered)

\* C29 witness: BSS.py has delivered, from the pending list, a message whose
\* sender had delivered a message of a third process before sending it.
C29_Witness ==
    /\ variant = "BSS"
    /\ Handled("receive")
    /\ \E P \in {log[1].process} : \E m \in Range(Drained(log)) :
          /\ Ready(P, m)
          /\ \E d \in depends[m] : messages[d].sender \notin {P, messages[m].sender}

\* C30 (progress, SES.py, matrix_clock.py and DistributedApp.py): when a
\* command has completed, every message of another process that P has been
\* given and whose causal dependencies not sent by P are all in P's delivered
\* history is in P's delivered history, also when the sender of the message
\* had delivered messages itself before sending it.
C30_ProgressFullMerge ==
    variant \in {"SES", "matrix_clock", "DistributedApp"} =>
        \A P \in PROCESS_NAMES : \A m \in DOMAIN messages :
            Ready(P, m) => m \in Range(processes[P].delivered)

----------------------------------------------------------------------------
(* Longer event scripts of one shape, as create_events builds them: P1 and
   P3 send and relay (receive each other's messages), then P2 receives the
   messages, each once, in any order. They reach the drains that find more
   than one pending message deliverable. *)

MaxSends == 4

MaxRelays == 1

Senders == {"P1", "P3"}

Observer == "P2"

\* the Receive events handled by P1 and P3
Relays == Sum([p \in Senders |->
                  Len(processes[p].delivered) + Len(processes[p].pending)],
              Senders)

\* the observer has not been given a message yet
Sending == processes[Observer] = Process(Observer)

script_send(p) ==
    /\ Sending
    /\ Cardinality(DOMAIN messages) < MaxSends
    /\ handle_send(p)

script_relay(p, msg_id) ==
    /\ Sending
    /\ Relays < MaxRelays
    /\ msg_id \in DOMAIN messages
    /\ messages[msg_id].sender # p
    /\ ~ Given(p, msg_id)
    /\ handle_receive(p, msg_id)

script_receive(msg_id) ==
    /\ msg_id \in DOMAIN messages
    /\ ~ Given(Observer, msg_id)
    /\ handle_receive(Observer, msg_id)

ScriptIds == 0 .. (MaxSends - 1)

NextScript ==
    \/ \E p \in Senders : script_send(p)
    \/ \E p \in Senders, msg_id \in ScriptIds : script_relay(p, msg_id)
    \/ \E msg_id \in ScriptIds : script_receive(msg_id)

ScriptSpec == Init /\ [][NextScript]_vars

\* the drain as the specification words it. One pass visits the entries the
\* pending list held when the pass began, in the order they were buffered,
\* and delivers each one that is deliverable when it is visited;
\* st = [proc, ids]: the process and the ids delivered so far
RECURSIVE DrainPass(_, _)
DrainPass(st, entries) ==
    IF entries = <<>> THEN st
    ELSE LET m == Head(entries)
         IN  IF is_deliverable(st.proc, m)
             THEN DrainPass(
                    [proc |-> deliver_message(
                                [st.proc EXCEPT !.pending = Remove(@, m)], m),
                     ids  |-> Append(st.ids, m.msg_id)],
                    Tail(entries))
             ELSE DrainPass(st, Tail(entries))

\* passes are repeated until one delivers nothing
RECURSIVE drainPending(_)
drainPending(st) ==
    LET after == DrainPass(st, st.proc.pending)
    IN  IF after.ids = st.ids THEN st ELSE drainPending(after)

\* C25 (drain pass order): try_deliver_pending appends the same ids in the
\* same order to the delivered history, and leaves the same clock and pending
\* list, as the drain of the specification, which on each pass over the
\* pending list delivers every deliverable message in the order of
\* buffering and repeats passes until one delivers nothing.
C25_PassOrder ==
    [][(/\ log'[1].kind = "receive"
        /\ Len(log') > 1
        /\ log'[2].kind = "delivers") =>
          \A P \in {log'[1].process} :
              \A ref \in {drainPending(
                            [proc |-> deliver_message(processes[P],
                                                      messages[log'[1].msg_id]),
                             ids  |-> <<>>])} :
                  /\ Drained(log') = ref.ids
                  /\ processes'[P] = ref.proc]_vars

\* the states a process goes through in try_deliver_pending, the state the
\* drain starts in first
RECURSIVE DrainStates(_)
DrainStates(process) ==
    LET i == FirstIndex([k \in 1 .. Len(process.pending) |->
                            is_deliverable(process, process.pending[k])])
    IN  IF i = 0 THEN <<process>>
        ELSE <<process>> \o
             DrainStates(deliver_message(
                [process EXCEPT !.pending = Remove(@, process.pending[i])],
                process.pending[i]))

\* delivering the pending message a of process
AfterDelivering(process, a) ==
    deliver_message([process EXCEPT !.pending = Remove(@, a)], a)

\* C26 (a delivery never disables another): in every variant and every state
\* a process is in when its pending list is examined, if two pending
\* messages with different ids are both deliverable, then after delivering
\* either of them the other is still deliverable.
C26_NoDisabling ==
    [][(/\ log'[1].kind = "receive"
        /\ Len(log') > 1
        /\ log'[2].kind = "delivers") =>
          \A P \in {log'[1].process} :
              \A states \in {DrainStates(deliver_message(
                                processes[P], messages[log'[1].msg_id]))} :
                  /\ states[Len(states)] = processes'[P]
                  /\ \A i \in 1 .. Len(states) :
                        \A a \in Range(states[i].pending) :
                            is_deliverable(states[i], a) =>
                                \A b \in Range(states[i].pending) :
                                    (b.msg_id # a.msg_id
                                        /\ is_deliverable(states[i], b)) =>
                                        is_deliverable(AfterDelivering(states[i], a), b)]_vars

\* C26 witness: a command has delivered a message and then, from the pending
\* list, two messages of different senders neither of which depends on the
\* other: both were deliverable as soon as the first delivery was made.
C26_Witness ==
    /\ Handled("receive")
    /\ Len(log) > 1 /\ log[2].kind = "delivers"
    /\ \E a \in Range(Drained(log)), b \in Range(Drained(log)) :
          /\ messages[a].sender # messages[b].sender
          /\ a \notin depends[b] /\ b \notin depends[a]
          /\ log[2].msg_id \in depends[a] \cap depends[b]

\* the ids of seq whose message was sent by s, in the order of seq
FromSender(seq, s) == SelectSeq(seq, LAMBDA id : messages[id].sender = s)

\* the ids s has sent, in the order it sent them: ids are handed out in
\* the order of the sends
RECURSIVE Ascending(_)
Ascending(S) ==
    IF S = {} THEN <<>>
    ELSE LET least == CHOOSE x \in S : \A y \in S : x <= y
         IN  <<least>> \o Ascending(S \ {least})

\* C31 (per-sender prefix order): in every variant and every reachable state,
\* for every receiver P and every sender s, the messages of s in P's
\* delivered history are the first n messages s sent, for some n >= 0, in
\* the order s sent them.
C31_SenderPrefix ==
    \A P \in PROCESS_NAMES : \A s \in PROCESS_NAMES :
        IsPrefix(FromSender(processes[P].delivered, s), Ascending(SentBy(s)))

\* C31 witness: a process was given the second message of a sender before the
\* first and has delivered both, the second one from its pending list.
C31_Witness ==
    \E P \in PROCESS_NAMES : \E s \in PROCESS_NAMES :
        /\ Len(FromSender(processes[P].delivered, s)) = 2
        /\ "buffers" \notin LogKinds
        /\ LogKinds \cap {"delivers pending", "delivers buffered"} # {}

\* the counter a clock or a timestamp records for process k
Counter(vector_clock, matrix, k) ==
    IF variant \in VectorVariants THEN vector_clock[k] ELSE matrix[k][k]

\* k's own current counter
OwnCounter(k) == Counter(processes[k].vector_clock, processes[k].matrix, k)

\* C32 (knowledge bound): in every reachable state of every variant, no
\* process and no message timestamp records a larger counter for a process k
\* than k's own current counter: clock_P[k] <= clock_k[k] and
\* timestamp[k] <= clock_k[k], on the diagonal cells in the matrix variants.
C32_KnowledgeBound ==
    \A k \in PROCESS_NAMES :
        /\ \A P \in PROCESS_NAMES :
              Counter(processes[P].vector_clock, processes[P].matrix, k)
                  <= OwnCounter(k)
        /\ \A id \in DOMAIN messages :
              Counter(messages[id].tag, messages[id].matrix, k) <= OwnCounter(k)

\* C32 witness: a process has delivered a message of k and then sent one, so
\* that its clock and a timestamp both record a counter of k above 0.
C32_Witness ==
    \E k \in PROCESS_NAMES : \E P \in PROCESS_NAMES \ {k} :
        /\ Counter(processes[P].vector_clock, processes[P].matrix, k) > 0
        /\ \E id \in SentBy(P) :
              Counter(messages[id].tag, messages[id].matrix, k) > 0

\* C33 (a process never delivers its own message): in every variant and for
\* any sequence of Send and Receive commands, a message sent by P is not
\* deliverable at P; a Receive of it at P buffers it, it never enters P's
\* delivered history, and no command but Reset takes it out of P's pending
\* list.
C33_OwnMessage ==
    [][log'[1].kind # "reset" =>
          \A P \in PROCESS_NAMES :
              \A id \in {i \in DOMAIN messages' : messages'[i].sender = P} :
                  /\ ~ is_deliverable(processes'[P], messages'[id])
                  /\ id \notin Range(processes'[P].delivered)
                  /\ Count(PendingIds(processes'[P]), id) >=
                         Count(PendingIds(processes[P]), id)
                  /\ log'[1] = LogLine("receive", P, id) =>
                        /\ log' = <<LogLine("receive", P, id),
                                    LogLine("buffers", P, id)>>
                        /\ processes'[P].pending =
                               Append(processes[P].pending, messages[id])]_vars

\* C33 witness: a process that holds a message of its own in its pending
\* list has delivered a message of another process and drained the list.
C33_Witness ==
    /\ Handled("receive")
    /\ Len(log) > 1 /\ log[2].kind = "delivers"
    /\ \E P \in {log[1].process} :
          \E id \in Range(PendingIds(processes[P])) : messages[id].sender = P

\* C34 (SES.py, a delivery changes exactly two entries): every delivery at P
\* of a message of sender s raises clock_P[s] by exactly 1, to timestamp[s],
\* and clock_P[P] by exactly 1, and leaves every other entry as it was: the
\* merge never adopts a larger value for a third process.
C34_TwoComponents ==
    [][(variant = "SES" /\ log'[1].kind = "receive") =>
          \A P \in {log'[1].process} : \A ids \in {NewDeliveries(P)} :
              ids # <<>> =>
                  \A traj \in {Trajectory(processes[P], ids, messages)} :
                      /\ traj[Len(traj)].vector_clock = processes'[P].vector_clock
                      /\ \A i \in 1 .. Len(ids) :
                            \A s \in {messages[ids[i]].sender} :
                                /\ s # P
                                /\ traj[i + 1].vector_clock[s] = messages[ids[i]].tag[s]
                                /\ \A k \in PROCESS_NAMES :
                                      traj[i + 1].vector_clock[k] =
                                          traj[i].vector_clock[k]
                                              + (IF k \in {s, P} THEN 1 ELSE 0)]_vars

\* C34 witness: SES.py has delivered a message whose timestamp is behind the
\* receiver in the entry of a third process.
C34_Witness ==
    /\ variant = "SES"
    /\ Handled("receive")
    /\ Len(log) > 1 /\ log[2].kind = "delivers"
    /\ \E P \in {log[1].process} : \E s \in {messages[log[2].msg_id].sender} :
          \E k \in PROCESS_NAMES \ {P, s} :
              messages[log[2].msg_id].tag[k] < processes[P].vector_clock[k]

\* every cell of matrix off the diagonal is 0
OffDiagonalZero(matrix) ==
    \A p \in PROCESS_NAMES, q \in PROCESS_NAMES : p # q => matrix[p][q] = 0

\* C35 (off-diagonal cells, matrix_clock.py and DistributedApp.py): in every
\* reachable state every off-diagonal cell of every process's matrix and of
\* every message's matrix snapshot is 0.
C35_OffDiagonal ==
    variant \in MatrixVariants =>
        /\ \A P \in PROCESS_NAMES : OffDiagonalZero(processes[P].matrix)
        /\ \A id \in DOMAIN messages : OffDiagonalZero(messages[id].matrix)

\* C35 witness: a matrix program has merged a snapshot into the matrix of a
\* process that then sent a message: its matrix and that snapshot hold two
\* non-zero diagonal cells.
C35_Witness ==
    /\ variant \in MatrixVariants
    /\ \E P \in PROCESS_NAMES : \E k \in PROCESS_NAMES \ {P} :
          /\ processes[P].matrix[k][k] > 0
          /\ processes[P].delivered # <<>>
          /\ \E id \in SentBy(P) :
                messages[id].matrix[k][k] > 0 /\ messages[id].matrix[P][P] > 0

(***************************************************************************)
(* SES.py and matrix_clock.py side by side.  Both simulations are given    *)
(* the same Send and Receive commands; processes and messages hold one     *)
(* field per program, log holds the step line followed by the lines of     *)
(* SES.py and then those of matrix_clock.py.                               *)
(***************************************************************************)
SideBySide == "SES and matrix_clock"

InitSideBySide ==
    /\ variant = SideBySide
    /\ processes = [SES |-> InitialProcesses, matrix_clock |-> InitialProcesses]
    /\ messages = [SES |-> NoMessages, matrix_clock |-> NoMessages]
    /\ log = <<>>
    /\ depends = NoMessages

\* the messages received so far by the processes of one simulation
ReceivesOf(procs) ==
    Sum([p \in PROCESS_NAMES |-> Len(procs[p].delivered) + Len(procs[p].pending)],
        PROCESS_NAMES)

\* a Send command of process p, run by both simulations
side_by_side_send(p) ==
    LET msg_id == Cardinality(DOMAIN messages.SES)
        s == SES_send(processes.SES[p], msg_id)
        m == MC_send(processes.matrix_clock[p], msg_id)
        store(msgs, msg) == [i \in DOMAIN msgs \cup {msg_id} |->
                                IF i = msg_id THEN msg ELSE msgs[i]]
    IN  /\ msg_id < MaxMsgs
        /\ processes' = [SES |-> [processes.SES EXCEPT ![p] = s.proc],
                         matrix_clock |->
                             [processes.matrix_clock EXCEPT ![p] = m.proc]]
        /\ messages' = [SES |-> store(messages.SES, s.msg),
                        matrix_clock |-> store(messages.matrix_clock, m.msg)]
        /\ log' = <<LogLine("send", p, msg_id)>> \o s.log \o m.log
        /\ UNCHANGED <<variant, depends>>

\* a Receive command of process p for msg_id, run by both simulations
side_by_side_receive(p, msg_id) ==
    /\ msg_id \in DOMAIN messages.SES => ReceivesOf(processes.SES) < MaxReceives
    /\ IF msg_id \in DOMAIN messages.SES
       THEN LET s == SES_receive_message(processes.SES[p], messages.SES[msg_id])
                m == MC_receive_message(processes.matrix_clock[p],
                                        messages.matrix_clock[msg_id])
            IN  /\ processes' =
                       [SES |-> [processes.SES EXCEPT ![p] = s.proc],
                        matrix_clock |->
                            [processes.matrix_clock EXCEPT ![p] = m.proc]]
                /\ log' = <<LogLine("receive", p, msg_id)>> \o s.log \o m.log
       ELSE /\ log' = <<LogLine("receive", p, msg_id), LogLine("error", p, msg_id)>>
            /\ UNCHANGED processes
    /\ UNCHANGED <<variant, messages, depends>>

NextSideBySide ==
    \/ \E p \in PROCESS_NAMES : side_by_side_send(p)
    \/ \E p \in PROCESS_NAMES, msg_id \in MsgIds : side_by_side_receive(p, msg_id)

SideBySideSpec == InitSideBySide /\ [][NextSideBySide]_vars

\* C36 (matrix_clock.py and SES.py are observationally equivalent): after
\* every command of the same sequence of Send and Receive commands each
\* process has the same delivered history and the same pending message ids
\* in both programs, and the diagonal of its matrix equals its vector clock.
C36_SameObservations ==
    \A P \in PROCESS_NAMES :
        \A s \in {processes.SES[P]} : \A m \in {processes.matrix_clock[P]} :
            /\ m.delivered = s.delivered
            /\ PendingIds(m) = PendingIds(s)
            /\ \A k \in PROCESS_NAMES : m.matrix[k][k] = s.vector_clock[k]

\* C36 witness: in both programs one process has delivered two messages, the
\* second of them out of its pending list, while another process holds a
\* message in its pending list.
C36_Witness ==
    /\ variant = SideBySide
    /\ Len(log) = 5
    /\ log[1].kind = "receive"
    /\ log[2].kind = "delivers" /\ log[3].kind = "delivers buffered"
    /\ log[4].kind = "delivers" /\ log[5].kind = "delivers buffered"
    /\ \E P \in {log[1].process} :
          /\ Len(processes.SES[P].delivered) = 2
          /\ Len(processes.matrix_clock[P].delivered) = 2
    /\ \E Q \in PROCESS_NAMES :
          /\ processes.SES[Q].pending # <<>>
          /\ processes.matrix_clock[Q].pending # <<>>

====
